---------------------------- MODULE Spec2Model ----------------------------
(***************************************************************************)
(* PyArduinoFlash: the STK500v1 / STK500v2 programmer classes of           *)
(* arduinobootloader.py and the command line driver scripts/arduinoflash.py*)
(* modelled as a state machine.  Bytes are integers 0..255, byte strings   *)
(* are sequences.  The serial device is its input buffer rx; the board at  *)
(* the other end of the line is a bootloader that answers each command,    *)
(* or misbehaves the way the fault chosen for the operation says.          *)
(***************************************************************************)
EXTENDS Integers, Sequences, FiniteSets, TLC

VARIABLES
    ab,        \* ArduinoBootloader object: device, versions, cpu descriptor
    prg,       \* selected programmer: protocol, _answer, _sequence_number
    wire,      \* serial line: rx input buffer, timeout
    tgt,       \* the board: signature, flash cells written, loaded address
    pc,        \* position of the command line driver
    args,      \* command line: update / read
    ih,        \* IntelHex image: maxaddr of the input file
    address,   \* driver loop variable
    dict_hex,  \* read mode: bytes accumulated for the output file
    exitcode,  \* process exit status, -1 while running
    stage,     \* message of exit_by_error, "" when none
    flash_done,\* "flash done, thank you" was printed
    log,       \* history: commands written to the serial line, in order
    calls,     \* history: write_memory / read_memory calls of the driver
    nframes,   \* history: number of messages written so far
    sent       \* history: messages written by the last operation

vars == <<ab, prg, wire, tgt, pc, args, ih, address, dict_hex, exitcode,
          stage, flash_done, log, calls, nframes, sent>>

---------------------------------------------------------------------------
(* Bounds of the model *)

\* largest maxaddr of an input hex file
MaxAddr == 130
\* page offsets below this one (and the last of a page) can hold a bad cell
MaxBadOffset == 2
\* messages one programmer object writes in the interface specification
MaxFrames == 258
\* a line fault starts at a command of the operation numbered up to this
MaxFaultAt == 3
\* and lasts at most this many commands
MaxFaultRun == 4
\* bytes a client of the classes writes or reads in one call
ApiLen == 4
\* times a loop of the script goes over one page
MaxVisits == 1
\* stray bytes on the line, more than one call reads
MaxFlood == 48

---------------------------------------------------------------------------
(* Protocol constants, arduinobootloader.py 16..96 *)

RESP_STK_OK == 16
RESP_STK_IN_SYNC == 20
MESSAGE_START == 27
TOKEN == 14
STATUS_CMD_OK == 0
CMD_SIGN_ON == 1
CMD_GET_PARAMETER == 3
CMD_SPI_MULTI == 29
CMD_LOAD_ADDRESS == 6
CMD_PROGRAM_FLASH_ISP == 19
CMD_READ_FLASH_ISP == 20
CMD_LEAVE_PROGMODE_ISP == 17
OPT_HW_VERSION == <<144>>
OPT_SW_MAJOR == <<145>>
OPT_SW_MINOR == <<146>>
CPU_SIG1 == 0
CPU_SIG2 == 1
CPU_SIG3 == 2

\* ord(' '), ord('0'), ord('1'), ord('A'), ord('u'), ord('U'), ord('d'),
\* ord('t'), ord('Q'), ord('F'), ord('E')
SP == 32
Ch0 == 48
Ch1 == 49
ChA == 65
Chu == 117
ChU == 85
Chd == 100
Cht == 116
ChQ == 81
ChF == 70
ChE == 69

---------------------------------------------------------------------------
(* Byte helpers *)

Byte == 0..255

Min(a, b) == IF a < b THEN a ELSE b

\* buf[:n] and buf[n:] of a byte string
Take(s, n) == SubSeq(s, 1, Min(n, Len(s)))
Drop(s, n) == SubSeq(s, Min(n, Len(s)) + 1, Len(s))

\* bytearray(n): n zero bytes
Zeros(n) == [i \in 1..n |-> 0]

RECURSIVE XorBits(_, _, _)
XorBits(a, b, n) ==
    IF n = 0 THEN 0
    ELSE ((a + b) % 2) + 2 * XorBits(a \div 2, b \div 2, n - 1)

\* a ^ b on bytes, tabulated once
XorTable == [a \in Byte |-> [b \in Byte |-> XorBits(a, b, 8)]]
Xor(a, b) == XorTable[a][b]

\* s[lo] ^ ... ^ s[hi]; ^ is associative, so the halves are folded apart
RECURSIVE XorRange(_, _, _)
XorRange(s, lo, hi) ==
    IF lo > hi THEN 0
    ELSE IF lo = hi THEN s[lo]
    ELSE Xor(XorRange(s, lo, (lo + hi) \div 2),
             XorRange(s, (lo + hi) \div 2 + 1, hi))

\* checksum = acc; for val in s[i:]: checksum ^= val
XorFold(acc, s, i) == Xor(acc, XorRange(s, i, Len(s)))

\* (x >> 8) & 0xFF and x & 0xFF
Hi8(x) == (x \div 256) % 256
Lo8(x) == x % 256

---------------------------------------------------------------------------
(* CPU registry, arduinobootloader.py 22..42 *)

Sig(a, b, c) == a * 65536 + b * 256 + c

AVR_ATMEL_CPUS ==
    { <<Sig(30, 150, 8),   "ATmega640",   128 * 2, 1024>>,
      <<Sig(30, 152, 2),   "ATmega2561",  128 * 2, 1024>>,
      <<Sig(30, 152, 1),   "ATmega2560",  128 * 2, 1024>>,
      <<Sig(30, 151, 3),   "ATmega1280",  128 * 2, 512>>,
      <<Sig(30, 151, 5),   "ATmega1284P", 128 * 2, 512>>,
      <<Sig(30, 151, 4),   "ATmega1281",  128 * 2, 512>>,
      <<Sig(30, 151, 130), "AT90USB1287", 128 * 2, 512>>,
      <<Sig(30, 151, 2),   "ATmega128",   128 * 2, 512>>,
      <<Sig(30, 150, 2),   "ATmega64",    128 * 2, 256>>,
      <<Sig(30, 149, 2),   "ATmega32",    64 * 2,  256>>,
      <<Sig(30, 148, 3),   "ATmega16",    64 * 2,  128>>,
      <<Sig(30, 147, 7),   "ATmega8",     32 * 2,  128>>,
      <<Sig(30, 147, 10),  "ATmega88",    32 * 2,  128>>,
      <<Sig(30, 148, 6),   "ATmega168",   64 * 2,  256>>,
      <<Sig(30, 149, 15),  "ATmega328P",  64 * 2,  256>>,
      <<Sig(30, 149, 20),  "ATmega328",   64 * 2,  256>>,
      <<Sig(30, 148, 4),   "ATmega162",   64 * 2,  128>>,
      <<Sig(30, 148, 2),   "ATmega163",   64 * 2,  128>>,
      <<Sig(30, 148, 5),   "ATmega169",   64 * 2,  128>>,
      <<Sig(30, 147, 6),   "ATmega8515",  32 * 2,  128>>,
      <<Sig(30, 147, 8),   "ATmega8535",  32 * 2,  128>> }

CpuKeys == { e[1] : e \in AVR_ATMEL_CPUS }
CpuEntry(signature) == CHOOSE e \in AVR_ATMEL_CPUS : e[1] = signature

\* "{:06x}".format(signature): six hexadecimal digits, most significant first
HexDigits(signature) ==
    [i \in 1..6 |-> (signature \div (16 ^ (6 - i))) % 16]

---------------------------------------------------------------------------
(* The board at the other end of the serial line.  It is a bootloader that *)
(* answers the commands of the two protocols as their tables describe;     *)
(* tgt.flash holds the cells programmed so far over the previous content.  *)

\* content of the flash before this run (the firmware flashed earlier)
OldByte(a) == (a * 3 + a \div 64 + 1) % 256

FlashByte(t, a) == IF a \in DOMAIN t.flash THEN t.flash[a] ELSE OldByte(a)

FlashRead(t, base, n) == [i \in 1..n |-> FlashByte(t, base + i - 1)]

\* program data at byte address base; a bad cell stores a wrong value
FlashProgram(t, base, data, f) ==
    LET cells == base..(base + Len(data) - 1)
        val(a) == IF f.kind = "badcell" /\ a = base + f.off
                  THEN (data[a - base + 1] + 1) % 256
                  ELSE data[a - base + 1]
    IN [t EXCEPT !.flash = [a \in (DOMAIN t.flash) \cup cells |->
                               IF a \in cells THEN val(a) ELSE t.flash[a]],
                 !.bad = t.bad \/ f.kind = "badcell"]

SigByte(t, i) == (t.signature \div (256 ^ (2 - i))) % 256

\* STK500v1 bootloader: the answer to one command ending in SP
TargetV1(t, msg, f) ==
    LET c == msg[1]
        ok(body) == <<RESP_STK_IN_SYNC>> \o body \o <<RESP_STK_OK>>
    IN  CASE c = ChA /\ Len(msg) = 3 ->
               [t |-> t,
                reply |-> ok(<<IF msg[2] = 128 THEN t.hw
                               ELSE IF msg[2] = 129 THEN t.major
                               ELSE IF msg[2] = 130 THEN t.minor ELSE 0>>)]
          [] c = Ch1 -> [t |-> t, reply |-> ok(t.name)]
          [] c = Chu ->
               [t |-> t,
                reply |-> ok(<<SigByte(t, 0), SigByte(t, 1), SigByte(t, 2)>>)]
          [] c = ChU /\ Len(msg) = 4 ->
               [t |-> [t EXCEPT !.addr = msg[2] + 256 * msg[3]],
                reply |-> ok(<<>>)]
          [] c = Chd /\ Len(msg) >= 5 ->
               [t |-> FlashProgram(t, 2 * t.addr,
                                   SubSeq(msg, 5, Len(msg) - 1), f),
                reply |-> ok(<<>>)]
          [] c = Cht /\ Len(msg) = 5 ->
               [t |-> t,
                reply |-> ok(FlashRead(t, 2 * t.addr, msg[2] * 256 + msg[3]))]
          [] OTHER -> [t |-> t, reply |-> ok(<<>>)]

\* a STK500v2 frame around a payload, checksum last
FrameV2(seq, payload) ==
    LET head == <<MESSAGE_START, seq, Hi8(Len(payload)), Lo8(Len(payload)),
                  TOKEN>> \o payload
    IN head \o <<XorFold(0, head, 1)>>

\* STK500v2 bootloader: the answer to one frame
TargetV2(t, msg, f) ==
    LET seq == msg[2]
        c == msg[6]
        body == SubSeq(msg, 7, Len(msg) - 1)
        ok(rbody) == FrameV2(seq, <<c, STATUS_CMD_OK>> \o rbody)
    IN  CASE c = CMD_SIGN_ON ->
               [t |-> t, reply |-> ok(<<Len(t.name2)>> \o t.name2)]
          [] c = CMD_GET_PARAMETER ->
               [t |-> t,
                reply |-> ok(<<IF body[1] = 144 THEN t.hw
                               ELSE IF body[1] = 145 THEN t.major
                               ELSE IF body[1] = 146 THEN t.minor ELSE 0>>)]
          [] c = CMD_SPI_MULTI ->
               [t |-> t,
                reply |-> ok(<<0, body[4], 0, SigByte(t, body[6]),
                               STATUS_CMD_OK>>)]
          [] c = CMD_LOAD_ADDRESS ->
               [t |-> [t EXCEPT !.addr = (body[1] % 128) * 16777216
                                   + body[2] * 65536 + body[3] * 256 + body[4]],
                reply |-> ok(<<>>)]
          [] c = CMD_PROGRAM_FLASH_ISP ->
               [t |-> FlashProgram(t, 2 * t.addr,
                                   SubSeq(body, 10, Len(body)), f),
                reply |-> ok(<<>>)]
          [] c = CMD_READ_FLASH_ISP ->
               [t |-> t,
                reply |-> ok(FlashRead(t, 2 * t.addr, body[1] * 256 + body[2])
                             \o <<STATUS_CMD_OK>>)]
          [] OTHER -> [t |-> t, reply |-> ok(<<>>)]

\* the k-th command of an operation falls in the fault's window
Hit(f, k) == f.kind \in {"silent", "garbage"} /\ f.at <= k /\ k < f.at + f.n

\* the last byte of a reply damaged on the line
Damage(reply) ==
    [i \in 1..Len(reply) |->
        IF i = Len(reply) THEN Xor(reply[i], 255) ELSE reply[i]]

\* the fault strikes the single command at of the operation
Once(f, k) == f.kind \in {"say", "echo", "noise", "stale"} /\ k = f.at

\* the answer to an earlier STK500v2 request that arrives late: it carries
\* the sequence number before seq and n bytes of data
StaleV2(seq, cmd, n) ==
    FrameV2((seq + 255) % 256, <<cmd, STATUS_CMD_OK>> \o Zeros(n))

\* the reply r to msg as the line delivers it: after n stray bytes f.off, or
\* after a late answer
Disturbed(f, msg, reply) ==
    IF f.kind = "noise" THEN [i \in 1..f.n |-> f.off] \o reply
    ELSE StaleV2(msg[2], msg[6], f.n) \o reply

\* what the board does with a message: its state after it and its reply;
\* a loop-back plug gives msg back and a test line the bytes f.say
Target(protocol, t, msg, f, k) ==
    LET r == IF protocol = "Stk500v1" THEN TargetV1(t, msg, f)
             ELSE TargetV2(t, msg, f)
    IN  IF Hit(f, k) /\ f.kind = "silent" THEN [t |-> t, reply |-> <<>>]
        ELSE IF Hit(f, k) THEN [t |-> r.t, reply |-> Damage(r.reply)]
        ELSE IF Once(f, k) /\ f.kind = "echo" THEN [t |-> t, reply |-> msg]
        ELSE IF Once(f, k) /\ f.kind = "say" THEN [t |-> t, reply |-> f.say]
        ELSE IF Once(f, k)
             THEN [t |-> r.t, reply |-> Disturbed(f, msg, r.reply)]
        ELSE r

---------------------------------------------------------------------------
(* The serial device (pyserial), as the operations of the code use it.     *)
(* A world w carries the objects an operation reads and changes, what it   *)
(* wrote (out) and the events it caused (ev).                              *)

\* the tag of a message written to the line
CmdTag(protocol, msg) ==
    LET c == IF protocol = "Stk500v1" THEN msg[1] ELSE msg[6]
    IN IF protocol = "Stk500v1"
       THEN CASE c = Ch0 -> "sync"
              [] c = ChA -> "get_parameter"
              [] c = Ch1 -> "sign_on"
              [] c = Chu -> "signature"
              [] c = ChU -> "load_address"
              [] c = Chd -> "program_page"
              [] c = Cht -> "read_page"
              [] c = ChQ -> "leave"
              [] OTHER -> "other"
       ELSE CASE c = CMD_SIGN_ON -> "sync"
              [] c = CMD_GET_PARAMETER -> "get_parameter"
              [] c = CMD_SPI_MULTI -> "signature"
              [] c = CMD_LOAD_ADDRESS -> "load_address"
              [] c = CMD_PROGRAM_FLASH_ISP -> "program_page"
              [] c = CMD_READ_FLASH_ISP -> "read_page"
              [] c = CMD_LEAVE_PROGMODE_ISP -> "leave"
              [] OTHER -> "other"

World(f) ==
    [ab |-> ab, prg |-> prg, wire |-> wire, tgt |-> tgt, f |-> f, k |-> 0,
     out |-> <<>>, ev |-> <<>>, ret |-> FALSE, buf |-> <<>>, exc |-> ""]

\* device.write(msg): the board receives msg, its reply lands in rx
DeviceWrite(w, msg) ==
    LET r == Target(w.prg.protocol, w.tgt, msg, w.f, w.k)
    IN [w EXCEPT !.tgt = r.t,
                 !.wire.rx = w.wire.rx \o r.reply,
                 !.out = Append(w.out, msg),
                 !.ev = Append(w.ev, CmdTag(w.prg.protocol, msg)),
                 !.k = w.k + 1]

\* device.read(n): up to n bytes, fewer when the timeout expires; the bytes
\* read are left in w.buf
DeviceRead(w, n) ==
    [w EXCEPT !.buf = Take(w.wire.rx, n), !.wire.rx = Drop(w.wire.rx, n)]

\* an exception leaves the operation: nothing after it runs
Raise(w, e) == [w EXCEPT !.exc = e, !.ret = FALSE]

Return(w, v) == [w EXCEPT !.ret = v]

\* the rest F of an operation, run on the world w a call left
Do(w, F(_)) == IF w.exc # "" THEN w ELSE F(w)

\* "if not call(): return False", then the rest F of the operation
Then(w, F(_)) == IF w.exc # "" \/ ~w.ret THEN w ELSE F(w)

---------------------------------------------------------------------------
(* class ArduinoBootloader *)

\* a registry that took every signature for an ATmega8
IsCpuSignatureAny(w, signature) ==
    [w EXCEPT !.ab.cpu_name = <<"ATmega8">>,
              !.ab.cpu_page_size = 64,
              !.ab.cpu_pages = 128,
              !.ret = TRUE]

\* a lookup that left the descriptor alone for a signature it does not know
IsCpuSignatureKeep(w, signature) ==
    IF signature \in CpuKeys
    THEN [w EXCEPT !.ab.cpu_name = <<CpuEntry(signature)[2]>>,
                   !.ab.cpu_page_size = CpuEntry(signature)[3],
                   !.ab.cpu_pages = CpuEntry(signature)[4],
                   !.ret = TRUE]
    ELSE Return(w, FALSE)

\* _is_cpu_signature(signature)
IsCpuSignature(w, signature) ==
    IF signature \in CpuKeys
    THEN [w EXCEPT !.ab.cpu_name = <<CpuEntry(signature)[2]>>,
                   !.ab.cpu_page_size = CpuEntry(signature)[3],
                   !.ab.cpu_pages = CpuEntry(signature)[4],
                   !.ret = TRUE]
    ELSE [w EXCEPT !.ab.cpu_name = <<"signature: ">> \o HexDigits(signature),
                   !.ab.cpu_page_size = 0,
                   !.ab.cpu_pages = 0,
                   !.ret = FALSE]

\* a pulse that emptied the input buffer before it reset the board
OpenStepsFlushFirst ==
    <<"flush", "dtr on", "rts on", "sleep", "dtr off", "rts off", "sleep">>

\* what open() does to the device once it has it: lines 241..250
OpenSteps ==
    <<"dtr on", "rts on", "sleep", "dtr off", "rts off", "sleep", "flush">>

\* the input buffer after the steps from the i-th on: what the board says
\* while it is reset arrives during the sleeps, reset_input_buffer() empties
RECURSIVE Pulse(_, _, _, _)
Pulse(rx, steps, banner, i) ==
    IF i > Len(steps) THEN rx
    ELSE Pulse(IF steps[i] = "sleep" THEN rx \o banner
               ELSE IF steps[i] = "flush" THEN <<>>
               ELSE rx,
               steps, banner, i + 1)

\* open(port, speed): no port found, or the device opened, the board reset
\* by the DTR / RTS pulse and the input buffer emptied
AbOpen(w) ==
    IF w.f.kind = "noport" THEN Return(w, FALSE)
    ELSE [w EXCEPT !.ab.device = "open",
                   !.ev = Append(w.ev, "open"),
                   !.wire.timeout = 1000,
                   !.wire.pulse = OpenSteps,
                   !.wire.rx = Pulse(w.wire.rx, OpenSteps,
                                     IF w.f.kind = "banner" THEN w.f.say
                                     ELSE <<>>, 1),
                   !.ret = TRUE]

\* close()
AbClose(w) ==
    IF w.exc # "" THEN w
    ELSE IF w.ab.device = "none" THEN Raise(w, "AttributeError")
    ELSE [w EXCEPT !.ab.device = "none", !.ev = Append(w.ev, "close")]

---------------------------------------------------------------------------
(* class Stk500v1 *)

\* the sentinels of an answer: lines 449..450
V1Sentinels(answer) ==
    /\ Len(answer) >= 2
    /\ answer[1] = RESP_STK_IN_SYNC
    /\ answer[Len(answer)] = RESP_STK_OK

\* _cmd_request_no_len(msg, answer_len)
V1CmdRequestNoLen(w, msg, answer_len) ==
    IF w.ab.device = "open"
    THEN Do(DeviceRead(DeviceWrite(w, msg), answer_len), LAMBDA w1 :
            [w1 EXCEPT !.prg.answer = w1.buf, !.ret = V1Sentinels(w1.buf)])
    ELSE Return(w, FALSE)

\* a strict request that did not compare the length
V1CmdRequestLoose(w, msg, answer_len) ==
    V1CmdRequestNoLen(w, msg, answer_len)

\* _cmd_request(msg, answer_len)
V1CmdRequest(w, msg, answer_len) ==
    Then(V1CmdRequestNoLen(w, msg, answer_len), LAMBDA w1 :
         Return(w1, Len(w1.prg.answer) = answer_len))

\* the attempts of get_sync: for i in range(1, 5)
RECURSIVE V1SyncLoop(_, _)
V1SyncLoop(w, i) ==
    IF i >= 5 THEN Return(w, FALSE)
    ELSE Do(V1CmdRequest(w, <<Ch0, SP>>, 2), LAMBDA w1 :
            IF w1.ret THEN [w1 EXCEPT !.wire.timeout = 1000, !.ret = TRUE]
            ELSE V1SyncLoop(w1, i + 1))

\* get_sync()
V1GetSync(w) ==
    IF w.ab.device = "none" THEN Raise(w, "AttributeError")
    ELSE V1SyncLoop([w EXCEPT !.wire.timeout = 500], 1)

\* open(port, speed)
V1Open(w) == Then(AbOpen(w), LAMBDA w1 : V1GetSync(w1))

\* a sign-on read only as long as the reply of a bootloader without a name
V1SignOnShort == Len(<<RESP_STK_IN_SYNC, RESP_STK_OK>>)

\* answer_len of the sign-on request in board_request()
V1SignOnLen == 7

\* board_request()
V1BoardRequest(w) ==
    Then(V1CmdRequest(w, <<ChA, 128, SP>>, 3), LAMBDA w1 :
    Then(V1CmdRequest([w1 EXCEPT !.ab.hw_version = w1.prg.answer[2]],
                      <<ChA, 129, SP>>, 3), LAMBDA w2 :
    Then(V1CmdRequest([w2 EXCEPT !.ab.hw_version = w2.prg.answer[2]],
                      <<ChA, 130, SP>>, 3), LAMBDA w3 :
    Then(V1CmdRequestNoLen([w3 EXCEPT !.ab.sw_minor = w3.prg.answer[2]],
                           <<Ch1, SP>>, V1SignOnLen), LAMBDA w4 :
         [w4 EXCEPT !.ab.programmer_name =
                        SubSeq(w4.prg.answer, 2, Len(w4.prg.answer) - 1),
                    !.ret = TRUE]))))

\* cpu_signature()
V1CpuSignature(w) ==
    Then(V1CmdRequest(w, <<Chu, SP>>, 5), LAMBDA w1 :
         IsCpuSignature(w1, w1.prg.answer[2] * 65536
                            + w1.prg.answer[3] * 256 + w1.prg.answer[4]))

\* an address that went out in bytes for the flash too
V1WireAddressByte(addr, flash) == addr

\* an address that went out in words for the eeprom too
V1WireAddressWord(addr, flash) == addr \div 2

\* the address _set_address puts on the wire: words for flash
V1WireAddress(addr, flash) == IF flash THEN addr \div 2 ELSE addr

\* _set_address(address, flash)
V1SetAddress(w, addr, flash) ==
    V1CmdRequest(w, <<ChU, Lo8(V1WireAddress(addr, flash)),
                      Hi8(V1WireAddress(addr, flash)), SP>>, 2)

\* a write that sent the page whatever became of the address
V1WriteMemoryBlind(w, buffer, addr, flash) ==
    Do(V1SetAddress(w, addr, flash), LAMBDA w1 :
       V1CmdRequest(w1, <<Chd, Hi8(Len(buffer)), Lo8(Len(buffer)),
                          IF flash THEN ChF ELSE ChE>> \o buffer \o <<SP>>,
                    2))

\* write_memory(buffer, address, flash)
V1WriteMemory(w, buffer, addr, flash) ==
    Then(V1SetAddress(w, addr, flash), LAMBDA w1 :
         V1CmdRequest(w1, <<Chd, Hi8(Len(buffer)), Lo8(Len(buffer)),
                            IF flash THEN ChF ELSE ChE>> \o buffer \o <<SP>>,
                      2))

\* read_memory(address, count, flash): ret FALSE stands for None, otherwise
\* the buffer returned is w.buf
V1ReadMemory(w, addr, count, flash) ==
    Then(V1SetAddress(w, addr, flash), LAMBDA w1 :
    Then(V1CmdRequest(w1, <<Cht, Hi8(count), Lo8(count),
                            IF flash THEN ChF ELSE ChE, SP>>, count + 2),
         LAMBDA w2 :
         [w2 EXCEPT !.buf = SubSeq(w2.prg.answer, 2,
                                   Min(count + 1, Len(w2.prg.answer))),
                    !.ret = TRUE]))

\* leave_bootloader()
V1LeaveBootloader(w) == V1CmdRequest(w, <<ChQ, SP>>, 2)

---------------------------------------------------------------------------
(* class Stk500v2 *)

\* a sequence number that went from 255 to 1
V2IncWrapOne(n) == IF n + 1 > 255 THEN 1 ELSE n + 1

\* a sequence number that never advanced
V2IncStuck(n) == n

\* _inc_sequence_numb()
V2IncSequenceNumb(n) == IF n + 1 > 255 THEN 0 ELSE n + 1

\* a frame whose length field counted the body without the command
V2HeadBodyLen(seq, cmd, data) ==
    <<MESSAGE_START, seq, Hi8(Len(data)), Lo8(Len(data)), TOKEN>>
    \o <<cmd>> \o data

\* buff of _send_command before the checksum is appended
V2Head(seq, cmd, data) ==
    <<MESSAGE_START, seq, Hi8(Len(data) + 1), Lo8(Len(data) + 1), TOKEN>>
    \o <<cmd>> \o data

\* the bytes _send_command(cmd, data) writes when the sequence number is seq
V2Buff(seq, cmd, data) ==
    V2Head(seq, cmd, data) \o <<XorFold(0, V2Head(seq, cmd, data), 1)>>

\* _send_command(cmd, data); data None is the empty string
V2SendCommand(w, cmd, data) ==
    IF w.ab.device = "open"
    THEN Do([w EXCEPT !.prg.sequence_number =
                          V2IncSequenceNumb(w.prg.sequence_number)],
            LAMBDA w1 :
            Return(DeviceWrite(w1, V2Buff(w1.prg.sequence_number, cmd, data)),
                   TRUE))
    ELSE Return(w, FALSE)

\* a header taken whatever its sequence number
V2HeadValidAnySeq(head, sequence_number) ==
    /\ Len(head) = 4
    /\ head[4] = TOKEN

\* the header is valid: line 757
V2HeadValid(head, sequence_number) ==
    /\ Len(head) = 4
    /\ head[4] = TOKEN
    /\ sequence_number = head[1]

\* _read_headear(): for i in range(1, 10); ret FALSE stands for None,
\* otherwise the header is w.buf
RECURSIVE V2ReadHeadear(_, _)
V2ReadHeadear(w, i) ==
    IF i >= 10 THEN Return(w, FALSE)
    ELSE Do(DeviceRead(w, 1), LAMBDA w1 :
            IF Len(w1.buf) >= 1 /\ w1.buf[1] = MESSAGE_START
            THEN Do(DeviceRead(w1, 4), LAMBDA w2 :
                    IF V2HeadValid(w2.buf, w2.prg.sequence_number)
                    THEN Return(w2, TRUE)
                    ELSE V2ReadHeadear(w2, i + 1))
            ELSE V2ReadHeadear(w1, i + 1))

\* a decoder that left the checksum byte unread
V2LenDataNoChecksum(head) == head[2] * 256 + head[3]

\* len_data of _recv_answer: the length in the header plus the checksum
V2LenData(head) == (head[2] * 256 + head[3]) + 1

\* a check whose checksum left the start byte out
V2CheckAnswerNoStart(w, head, answer, cmd) ==
    IF /\ Len(answer) = V2LenData(head)
       /\ answer[1] = cmd
       /\ answer[2] = STATUS_CMD_OK
    THEN [w EXCEPT !.prg.answer = SubSeq(answer, 3, Len(answer) - 1),
                   !.ret = (XorFold(0,
                                    head \o SubSeq(answer, 1, Len(answer) - 1),
                                    1)
                            = answer[Len(answer)])]
    ELSE [w EXCEPT !.prg.answer = answer, !.ret = FALSE]

\* lines 727..743: the answer read is checked against the header
V2CheckAnswer(w, head, answer, cmd) ==
    IF /\ Len(answer) = V2LenData(head)
       /\ answer[1] = cmd
       /\ answer[2] = STATUS_CMD_OK
    THEN [w EXCEPT !.prg.answer = SubSeq(answer, 3, Len(answer) - 1),
                   !.ret = (XorFold(MESSAGE_START,
                                    head \o SubSeq(answer, 1, Len(answer) - 1),
                                    1)
                            = answer[Len(answer)])]
    ELSE [w EXCEPT !.prg.answer = answer, !.ret = FALSE]

\* _recv_answer(cmd)
V2RecvAnswer(w, cmd) ==
    Then(V2ReadHeadear(w, 1), LAMBDA w1 :
         IF V2LenData(w1.buf) >= 3
         THEN Do(DeviceRead(w1, V2LenData(w1.buf)), LAMBDA w2 :
                 V2CheckAnswer(w2, w1.buf, w2.buf, cmd))
         ELSE Return(w1, FALSE))

\* get_sync()
V2GetSync(w) ==
    Then(V2SendCommand(w, CMD_SIGN_ON, <<>>), LAMBDA w1 :
    Then(V2RecvAnswer(w1, CMD_SIGN_ON), LAMBDA w2 :
         IF Len(w2.prg.answer) = 0 THEN Raise(w2, "IndexError")
         ELSE [w2 EXCEPT !.prg.answer = Tail(w2.prg.answer),
                         !.ab.programmer_name = Tail(w2.prg.answer),
                         !.ret = TRUE]))

\* open(port, speed)
V2Open(w) == Then(AbOpen(w), LAMBDA w1 : V2GetSync(w1))

\* _get_params(option)
V2GetParams(w, option) ==
    Then(V2SendCommand(w, CMD_GET_PARAMETER, option), LAMBDA w1 :
         V2RecvAnswer(w1, CMD_GET_PARAMETER))

\* self._answer[i], 0-based, or IndexError
V2Answer(w, i, F(_)) ==
    IF w.exc # "" \/ ~w.ret THEN w
    ELSE IF Len(w.prg.answer) <= i THEN Raise(w, "IndexError")
    ELSE F(w)

\* board_request()
V2BoardRequest(w) ==
    V2Answer(V2GetParams(w, OPT_HW_VERSION), 0, LAMBDA w1 :
    V2Answer(V2GetParams([w1 EXCEPT !.ab.hw_version = w1.prg.answer[1]],
                         OPT_SW_MAJOR), 0, LAMBDA w2 :
    V2Answer(V2GetParams([w2 EXCEPT !.ab.hw_version = w2.prg.answer[1]],
                         OPT_SW_MINOR), 0, LAMBDA w3 :
        [w3 EXCEPT !.ab.sw_minor = w3.prg.answer[1], !.ret = TRUE])))

\* _get_signature(index)
V2GetSignature(w, index) ==
    Then(V2SendCommand(w, CMD_SPI_MULTI, <<0, 0, 0, Ch0, 0, index>>),
         LAMBDA w1 : V2RecvAnswer(w1, CMD_SPI_MULTI))

\* cpu_signature()
V2CpuSignature(w) ==
    V2Answer(V2GetSignature(w, CPU_SIG1), 3, LAMBDA w1 :
    V2Answer(V2GetSignature(w1, CPU_SIG2), 3, LAMBDA w2 :
    V2Answer(V2GetSignature(w2, CPU_SIG3), 3, LAMBDA w3 :
        IsCpuSignature(w3, w1.prg.answer[4] * 65536
                           + w2.prg.answer[4] * 256 + w3.prg.answer[4]))))

\* the address _load_address puts on the wire: words for flash
V2WireAddress(addr, flash) == IF flash THEN addr \div 2 ELSE addr

\* msg of _load_address: big endian, 0x80 or-ed into the first byte
V2AddressMsg(a) ==
    <<IF ((a \div 16777216) % 256) >= 128 THEN (a \div 16777216) % 256
      ELSE ((a \div 16777216) % 256) + 128,
      (a \div 65536) % 256, Hi8(a), Lo8(a)>>

\* _load_address(address, flash)
V2LoadAddress(w, addr, flash) ==
    Then(V2SendCommand(w, CMD_LOAD_ADDRESS,
                       V2AddressMsg(V2WireAddress(addr, flash))),
         LAMBDA w1 : V2RecvAnswer(w1, CMD_LOAD_ADDRESS))

\* write_memory(buffer, address, flash)
V2WriteMemory(w, buffer, addr, flash) ==
    Then(V2LoadAddress(w, addr, flash), LAMBDA w1 :
    Then(V2SendCommand(w1, CMD_PROGRAM_FLASH_ISP,
                       <<Hi8(Len(buffer)), Lo8(Len(buffer))>> \o Zeros(7)
                       \o buffer), LAMBDA w2 :
         V2RecvAnswer(w2, CMD_PROGRAM_FLASH_ISP)))

\* read_memory(address, count, flash): ret FALSE stands for None, otherwise
\* the buffer returned is w.buf
V2ReadMemory(w, addr, count, flash) ==
    Then(V2LoadAddress(w, addr, flash), LAMBDA w1 :
    Then(V2SendCommand(w1, CMD_READ_FLASH_ISP, <<Hi8(count), Lo8(count), 0>>),
         LAMBDA w2 :
    V2Answer(V2RecvAnswer(w2, CMD_READ_FLASH_ISP), 0, LAMBDA w3 :
         IF w3.prg.answer[Len(w3.prg.answer)] = STATUS_CMD_OK
         THEN [w3 EXCEPT !.prg.answer = SubSeq(w3.prg.answer, 1,
                                               Len(w3.prg.answer) - 1),
                         !.buf = SubSeq(w3.prg.answer, 1,
                                        Len(w3.prg.answer) - 1),
                         !.ret = TRUE]
         ELSE Return(w3, FALSE))))

\* a leave that did not wait for the answer
V2LeaveBootloaderNoRecv(w) ==
    V2SendCommand(w, CMD_LEAVE_PROGMODE_ISP, Zeros(3))

\* leave_bootloader()
V2LeaveBootloader(w) ==
    Then(V2SendCommand(w, CMD_LEAVE_PROGMODE_ISP, Zeros(3)), LAMBDA w1 :
         V2RecvAnswer(w1, CMD_LEAVE_PROGMODE_ISP))

---------------------------------------------------------------------------
(* The selected programmer, as scripts/arduinoflash.py calls it *)

PrgOpen(w) ==
    IF w.prg.protocol = "Stk500v1" THEN V1Open(w) ELSE V2Open(w)
PrgBoardRequest(w) ==
    IF w.prg.protocol = "Stk500v1" THEN V1BoardRequest(w)
    ELSE V2BoardRequest(w)
PrgCpuSignature(w) ==
    IF w.prg.protocol = "Stk500v1" THEN V1CpuSignature(w)
    ELSE V2CpuSignature(w)
PrgWriteMemory(w, buffer, addr) ==
    IF w.prg.protocol = "Stk500v1" THEN V1WriteMemory(w, buffer, addr, TRUE)
    ELSE V2WriteMemory(w, buffer, addr, TRUE)
PrgReadMemory(w, addr, count) ==
    IF w.prg.protocol = "Stk500v1" THEN V1ReadMemory(w, addr, count, TRUE)
    ELSE V2ReadMemory(w, addr, count, TRUE)
PrgLeaveBootloader(w) ==
    IF w.prg.protocol = "Stk500v1" THEN V1LeaveBootloader(w)
    ELSE V2LeaveBootloader(w)
PrgGetSync(w) ==
    IF w.prg.protocol = "Stk500v1" THEN V1GetSync(w) ELSE V2GetSync(w)
\* Stk500v1.close() and Stk500v2.close()
PrgClose(w) == AbClose(w)

---------------------------------------------------------------------------
(* The input file and the faults an operation can meet *)

\* content of the hex file at address a, 0 <= a <= maxaddr
ImageByte(a) == (a * 5 + 3) % 256

\* the byte IntelHex.tobinarray() gives for an address the file lacks
Padding == 255

\* ih.tobinarray(start=addr, size=size)
ToBinArray(maxaddr, addr, size) ==
    [i \in 1..size |->
        IF addr + i - 1 <= maxaddr THEN ImageByte(addr + i - 1) ELSE Padding]

NoFault == [kind |-> "none", at |-> 0, n |-> 0, off |-> 0]

\* the board is silent, or its reply is damaged, for n commands from
\* command at of the operation
LineFaults ==
    { f \in [kind : {"silent", "garbage"}, at : 0..MaxFaultAt,
             n : 1..MaxFaultRun, off : {0}] : f.at = 0 \/ f.n = 1 }

\* a flash cell of the page being programmed stores a wrong value
CellFaults(page_size) ==
    { [kind |-> "badcell", at |-> 0, n |-> 0, off |-> o] :
        o \in { x \in 0..(page_size - 1) :
                  x < MaxBadOffset \/ x = page_size - 1 } }

Faults == {NoFault} \cup LineFaults

\* for leave_bootloader, which writes one command: it is answered or not
LeaveFaults == {f \in Faults : f.at = 0 /\ f.n <= 1}

\* the objects after an operation, and the messages it wrote
CommitObjects(w) ==
    /\ ab' = w.ab
    /\ prg' = w.prg
    /\ wire' = w.wire
    /\ tgt' = w.tgt
    /\ nframes' = nframes + Len(w.out)
    /\ sent' = w.out

\* the same, with the events of the operation added to the run's log
Commit(w) == CommitObjects(w) /\ log' = log \o w.ev

---------------------------------------------------------------------------
(* scripts/arduinoflash.py *)

\* boards the driver is run against: ATmega8, ATmega16 and a cpu the
\* registry does not list; the whole flash is read from the first and last
TargetSignatures == {Sig(30, 147, 7), Sig(30, 148, 3), Sig(222, 173, 190)}
ReadSignatures == {Sig(30, 147, 7), Sig(222, 173, 190)}

Boards ==
    { [signature |-> sg, flash |-> <<>>, bad |-> FALSE, addr |-> 0,
       hw |-> 15, major |-> 2, minor |-> 10, name |-> <<>>,
       name2 |-> <<83, 84, 75, 53, 48, 48, 95, 50>>] :
        sg \in TargetSignatures }

\* maxaddr of the hex files the driver is given: around the page borders
ImageSizes == { n \in 0..MaxAddr : n % 64 \in {0, 1, 63} }

\* ArduinoBootloader.__init__
NewAb ==
    [device |-> "none", hw_version |-> 0, sw_major |-> 0, sw_minor |-> 0,
     cpu_name |-> <<"">>, cpu_page_size |-> 0, cpu_pages |-> 0,
     programmer_name |-> <<>>]

\* Stk500v1.__init__ / Stk500v2.__init__
NewPrg(protocol) ==
    [protocol |-> protocol, answer |-> <<>>, sequence_number |-> 0]

Init ==
    /\ ab = NewAb
    /\ prg = NewPrg("")
    /\ wire = [rx |-> <<>>, timeout |-> 1000, pulse |-> <<>>]
    /\ tgt \in Boards
    /\ pc = "args"
    /\ args \in [mode : {"update", "read", "none"},
                 programmer : {"Stk500v1", "Stk500v2", "Stk500v3"}]
    /\ args.mode = "read" => tgt.signature \in ReadSignatures
    /\ ih = [maxaddr |-> 0]
    /\ address = 0
    /\ dict_hex = <<>>
    /\ exitcode = -1
    /\ stage = ""
    /\ flash_done = FALSE
    /\ log = <<>>
    /\ calls = <<>>
    /\ nframes = 0
    /\ sent = <<>>

\* lines 27..44: informational exits, select_programmer
ParseArgs ==
    /\ pc = "args"
    /\ IF args.mode = "none" \/ args.programmer \notin {"Stk500v1", "Stk500v2"}
       THEN pc' = "done" /\ exitcode' = 0 /\ prg' = prg
       ELSE pc' = "open" /\ exitcode' = exitcode
            /\ prg' = NewPrg(args.programmer)
    /\ UNCHANGED <<ab, wire, tgt, args, ih, address, dict_hex, stage,
                   flash_done, log, calls, nframes, sent>>

\* a script that printed the error and went on to its next step
StepOn(w, okpc, msg) ==
    /\ pc' = IF w.exc # "" THEN "done" ELSE okpc
    /\ exitcode' = IF w.exc # "" THEN 1 ELSE exitcode
    /\ stage' = IF w.exc # "" THEN w.exc ELSE IF w.ret THEN stage ELSE msg

\* where a step that called the programmer goes: on, to exit_by_error(msg),
\* or out of the script with the traceback of an exception nobody catches
Step(w, okpc, msg) ==
    /\ pc' = IF w.exc # "" THEN "done"
             ELSE IF w.ret THEN okpc ELSE "exit_by_error"
    /\ exitcode' = IF w.exc # "" THEN 1 ELSE exitcode
    /\ stage' = IF w.exc # "" THEN w.exc ELSE IF w.ret THEN stage ELSE msg

\* a script that bounded the reading loop by the file in both modes
MaxAddressFile(a, h) == h.maxaddr

\* max_address of lines 92..99, a and h the ab and ih objects
MaxAddress(a, h) ==
    IF args.mode = "update" THEN h.maxaddr
    ELSE IF args.mode = "read" THEN a.cpu_page_size * a.cpu_pages
    ELSE 0

\* after the loop of lines 104..118
AfterReadPc == IF args.mode = "read" THEN "save" ELSE "finish"

\* range(0, max_address, page_size) is empty or not
ReadEntryPc(a, h) == IF 0 < MaxAddress(a, h) THEN "read" ELSE AfterReadPc

\* the record of one call of the programmer: what was asked, whether it
\* returned True, and how long the log was when it returned
Call(op, addr, size, w) ==
    [op |-> op, address |-> addr, size |-> size,
     ok |-> (w.exc = "" /\ w.ret), at |-> Len(log) + Len(w.ev)]

\* after prg.open: line 55, or the else branch of line 132
OpenEnd(w) ==
    /\ Commit(w)
    /\ calls' = Append(calls, Call("open", 0, 0, w))
    /\ pc' = IF w.exc = "" /\ w.ret THEN "board_request" ELSE "done"
    /\ exitcode' = IF w.exc # "" THEN 1 ELSE IF w.ret THEN -1 ELSE 0
    /\ stage' = IF w.exc # "" THEN w.exc
                ELSE IF w.ret THEN "" ELSE "could not connect"

\* line 54: prg.open(speed=args.baudrate)
Open ==
    /\ pc = "open"
    /\ \E f \in Faults \cup {[NoFault EXCEPT !.kind = "noport"]} :
         OpenEnd(PrgOpen(World(f)))
    /\ address' = 0
    /\ UNCHANGED <<args, ih, dict_hex, flash_done>>

BoardRequestEnd(w) ==
    /\ Commit(w)
    /\ calls' = Append(calls, Call("board_request", 0, 0, w))
    /\ Step(w, "cpu_signature", "board request")

\* lines 57..58
BoardRequest ==
    /\ pc = "board_request"
    /\ \E f \in Faults : BoardRequestEnd(PrgBoardRequest(World(f)))
    /\ UNCHANGED <<args, ih, address, dict_hex, flash_done>>

CpuSignatureEnd(w) ==
    /\ Commit(w)
    /\ calls' = Append(calls, Call("cpu_signature", 0, 0, w))
    /\ Step(w, IF args.mode = "update" THEN "load_file"
               ELSE ReadEntryPc(w.ab, ih), "cpu signature")

\* lines 63..64
CpuSignature ==
    /\ pc = "cpu_signature"
    /\ \E f \in Faults : CpuSignatureEnd(PrgCpuSignature(World(f)))
    /\ UNCHANGED <<args, ih, address, dict_hex, flash_done>>

\* lines 68..81: ih.fromfile and the entry of the writing loop; the file
\* is read, is missing, or is no hex file
LoadFile ==
    /\ pc = "load_file"
    /\ \/ \E n \in ImageSizes :
            /\ ih' = [maxaddr |-> n]
            /\ pc' = IF 0 < n THEN "write" ELSE ReadEntryPc(ab, ih')
            /\ stage' = stage
       \/ \E msg \in {"file not found", "error, file format"} :
            /\ ih' = ih
            /\ pc' = "exit_by_error"
            /\ stage' = msg
    /\ address' = 0
    /\ UNCHANGED <<ab, prg, wire, tgt, args, dict_hex, exitcode,
                   flash_done, log, calls, nframes, sent>>

\* loops that stepped over every other page
PageStepDouble(page_size) == 2 * page_size

\* a loop that stayed on its page
PageStepZero(page_size) == page_size - page_size

\* the step of range(0, ..., ab.cpu_page_size)
PageStep(page_size) == page_size

\* a script that verified after the first page written
AfterWritePcEarly(next) == ReadEntryPc(ab, ih)

\* the writing loop goes on at next while range(0, ih.maxaddr(), ...) lasts,
\* and then the script reaches line 92
AfterWritePc(next) ==
    IF next < ih.maxaddr THEN "write" ELSE ReadEntryPc(ab, ih)

\* lines 83..86 after write_memory returned; next is the loop's next address
WritePageEnd(w, size, next) ==
    /\ Commit(w)
    /\ calls' = Append(calls, Call("write", address, size, w))
    /\ Step(w, AfterWritePc(next), "writing flash memory")
    /\ address' = IF w.exc # "" \/ ~w.ret THEN address
                  ELSE IF next < ih.maxaddr THEN next ELSE 0

\* lines 81..86: one pass of the writing loop
\* calls of op made for the page at address so far
Visits(op) ==
    Cardinality({ i \in 1..Len(calls) :
                    calls[i].op = op /\ calls[i].address = address })

WritePage ==
    /\ pc = "write"
    /\ Visits("write") < MaxVisits
    /\ \E f \in Faults \cup (IF tgt.bad THEN {}
                            ELSE CellFaults(ab.cpu_page_size)) :
         WritePageEnd(
             PrgWriteMemory(World(f),
                            ToBinArray(ih.maxaddr, address, ab.cpu_page_size),
                            address),
             Len(ToBinArray(ih.maxaddr, address, ab.cpu_page_size)),
             address + PageStep(ab.cpu_page_size))
    /\ UNCHANGED <<args, ih, dict_hex, flash_done>>

\* read_buffer != ih.tobinarray(start=address, size=ab.cpu_page_size)
NotMatch(read_buffer, expected) == read_buffer # expected

\* line 110: the page read differs from the file
Differs(w) ==
    /\ w.exc = "" /\ w.ret /\ args.mode = "update"
    /\ NotMatch(w.buf, ToBinArray(ih.maxaddr, address, ab.cpu_page_size))

\* lines 113..114: dict_hex[address + i] = read_buffer[i]
Accumulate(d, addr, read_buffer, page_size) ==
    [a \in (DOMAIN d) \cup (addr..(addr + page_size - 1)) |->
        IF a >= addr /\ a < addr + page_size
        THEN read_buffer[a - addr + 1] ELSE d[a]]

\* lines 106..116 after read_memory returned w0; w is w0 or the IndexError
\* of line 114
ReadPageEnd(w0, w, more) ==
    /\ Commit(w)
    /\ calls' = Append(calls, Call("read", address, Len(w0.buf), w0))
    /\ IF Differs(w)
       THEN pc' = "exit_by_error" /\ stage' = "file not match"
            /\ exitcode' = exitcode
       ELSE Step(w, IF more THEN "read" ELSE AfterReadPc,
                 "reading flash memory")
    /\ address' = IF w.exc # "" \/ ~w.ret \/ Differs(w) \/ ~more
                  THEN address ELSE address + PageStep(ab.cpu_page_size)
    /\ dict_hex' = IF w.exc = "" /\ w.ret /\ args.mode = "read"
                   THEN Accumulate(dict_hex, address, w.buf, ab.cpu_page_size)
                   ELSE dict_hex

\* read_buffer[i] of line 114 for i up to page_size
Indexed(w0) ==
    IF /\ w0.exc = "" /\ w0.ret /\ args.mode = "read"
       /\ Len(w0.buf) < ab.cpu_page_size
    THEN Raise(w0, "IndexError") ELSE w0

ReadPageMid(w0) ==
    ReadPageEnd(w0, Indexed(w0),
                address + PageStep(ab.cpu_page_size) < MaxAddress(ab, ih))

\* lines 104..116: one pass of the reading loop
ReadPage ==
    /\ pc = "read"
    /\ Visits("read") < MaxVisits
    /\ \E f \in Faults :
         ReadPageMid(PrgReadMemory(World(f), address, ab.cpu_page_size))
    /\ UNCHANGED <<args, ih, flash_done>>

\* lines 120..126: ih.fromdict(dict_hex), ih.tofile; the file is written
\* or cannot be created
Save ==
    /\ pc = "save"
    /\ \/ pc' = "finish" /\ stage' = stage
       \/ pc' = "exit_by_error" /\ stage' = "the file cannot be created"
    /\ UNCHANGED <<ab, prg, wire, tgt, args, ih, address, dict_hex, exitcode,
                   flash_done, log, calls, nframes, sent>>

FinishEnd(w) ==
    /\ Commit(w)
    /\ pc' = "done"
    /\ exitcode' = IF w.exc # "" THEN 1 ELSE 0
    /\ stage' = w.exc

\* lines 128..131: flash done, leave_bootloader, close
Finish ==
    /\ pc = "finish"
    /\ \E f \in LeaveFaults : FinishEnd(PrgClose(PrgLeaveBootloader(World(f))))
    /\ flash_done' = TRUE
    /\ UNCHANGED <<args, ih, address, dict_hex, calls>>

\* the status sys.exit gives the process in exit_by_error
ErrorStatus == 0

ExitByErrorEnd(w) ==
    /\ Commit(w)
    /\ pc' = "done"
    /\ exitcode' = IF w.exc # "" THEN 1 ELSE ErrorStatus

\* lines 47..51: exit_by_error(msg), msg is stage
ExitByError ==
    /\ pc = "exit_by_error"
    /\ \E f \in LeaveFaults : ExitByErrorEnd(AbClose(PrgLeaveBootloader(World(f))))
    /\ UNCHANGED <<args, ih, address, dict_hex, stage, flash_done, calls>>

Next ==
    \/ ParseArgs
    \/ Open
    \/ BoardRequest
    \/ CpuSignature
    \/ LoadFile
    \/ WritePage
    \/ ReadPage
    \/ Save
    \/ Finish
    \/ ExitByError

Spec == Init /\ [][Next]_vars

---------------------------------------------------------------------------
(* A client of the library other than the script: it builds one Stk500v2  *)
(* programmer and calls its public methods, in any order, over a long      *)
(* session.                                                                *)

\* what the client passes to write_memory and read_memory
ClientBuffer == ToBinArray(MaxAddr, 0, ApiLen)

\* the faults a call of the client meets
ClientFaults == {NoFault}

InitV2 ==
    /\ ab = NewAb
    /\ prg = NewPrg("Stk500v2")
    /\ args = [mode |-> "none", programmer |-> "Stk500v2"]
    /\ wire = [rx |-> <<>>, timeout |-> 1000, pulse |-> <<>>]
    /\ tgt \in {b \in Boards : b.signature = Sig(30, 147, 7)}
    /\ pc = "client"
    /\ ih = [maxaddr |-> 0]
    /\ address = 0
    /\ dict_hex = <<>>
    /\ exitcode = -1
    /\ stage = ""
    /\ flash_done = FALSE
    /\ log = <<>>
    /\ calls = <<>>
    /\ nframes = 0
    /\ sent = <<>>

\* after a call: the objects as it left them, the exception it raised
ClientEnd(w) ==
    /\ CommitObjects(w)
    /\ stage' = w.exc
    /\ UNCHANGED <<pc, args, ih, address, dict_hex, exitcode, flash_done,
                   log, calls>>

ClientReady == pc = "client" /\ nframes < MaxFrames

ClientOpen ==
    ClientReady /\ \E f \in ClientFaults : ClientEnd(PrgOpen(World(f)))

ClientGetSync ==
    ClientReady /\ \E f \in ClientFaults : ClientEnd(PrgGetSync(World(f)))

ClientBoardRequest ==
    ClientReady /\ \E f \in ClientFaults : ClientEnd(PrgBoardRequest(World(f)))

ClientCpuSignature ==
    ClientReady /\ \E f \in ClientFaults : ClientEnd(PrgCpuSignature(World(f)))

ClientWriteMemory ==
    /\ ClientReady
    /\ \E f \in ClientFaults :
         ClientEnd(PrgWriteMemory(World(f), ClientBuffer, 0))

ClientReadMemory ==
    /\ ClientReady
    /\ \E f \in ClientFaults : ClientEnd(PrgReadMemory(World(f), 0, ApiLen))

ClientLeaveBootloader ==
    /\ ClientReady
    /\ \E f \in ClientFaults : ClientEnd(PrgLeaveBootloader(World(f)))

ClientClose == ClientReady /\ ClientEnd(PrgClose(World(NoFault)))

NextV2 ==
    \/ ClientOpen
    \/ ClientGetSync
    \/ ClientBoardRequest
    \/ ClientCpuSignature
    \/ ClientWriteMemory
    \/ ClientReadMemory
    \/ ClientLeaveBootloader
    \/ ClientClose

SpecV2 == InitV2 /\ [][NextV2]_vars

---------------------------------------------------------------------------
(* The codec on its own: one programmer is opened and one of its private   *)
(* methods is applied once to an input drawn from the sets below.          *)

\* bytes of body in the frames given to _send_command
MaxBody == 2
\* bytes the line delivers in answer to a Stk500v1 command
MaxReply == 4
\* addresses this far around the borders of the address bytes
MaxAddrOffset == 2
\* bytes in the name a Stk500v1 bootloader signs on with
MaxName == 6
\* signatures read before the last one
MaxBefore == 1
\* bytes missing at the end of a Stk500v2 reply
MaxCut == 1
\* bytes that are no start byte before a Stk500v2 reply
MaxJunk == 9
\* data bytes in the reply to a read of two bytes
MaxData == 3

\* bodies given to _send_command: a start byte among them
CodecBodies ==
    UNION { [1..n -> {0, 1, MESSAGE_START, 255}] : n \in 0..MaxBody }

\* what the line can deliver to _cmd_request: sentinels and data, any order
CodecReplies ==
    UNION { [1..n -> {RESP_STK_IN_SYNC, RESP_STK_OK, 0}] : n \in 0..MaxReply }

\* 0x1234 and the borders of 8, 16, 17, 24 and 30 bits
CodecAddresses ==
    LET borders == {0, 256, 4660, 65536, 131072, 16777216, 1073741824}
    IN  { b + d : b \in borders, d \in 0..MaxAddrOffset }
        \cup { b - d : b \in borders \ {0}, d \in 1..MaxAddrOffset }

\* names a Stk500v1 bootloader signs on with: letters and, among them, the
\* byte that ends a reply
CodecNames == UNION { [1..n -> {ChA, RESP_STK_OK}] : n \in 0..MaxName }

\* signatures read one after the other: the last is any key of the table
\* or none of them, the ones before it a small or a large part, or unknown
CodecSignatures ==
    LET few == {Sig(30, 147, 7), Sig(30, 152, 1), Sig(222, 173, 190)}
    IN  { before \o <<last>> :
            before \in UNION { [1..n -> few] : n \in 0..MaxBefore },
            last \in CpuKeys \cup {Sig(222, 173, 190)} }

\* replies to a Stk500v2 command, field by field: each field right or wrong,
\* the end missing or not; and right replies behind bytes that start nothing
CodecAnswers ==
    LET right == [fn : {"answer"}, cmd : {CMD_READ_FLASH_ISP},
                  start : {MESSAGE_START}, seq_off : {0}, token : {TOKEN},
                  len_off : {0}, cmd_ok : {TRUE}, status : {STATUS_CMD_OK},
                  data : {<<>>, <<7>>}, chk_off : {0}, cut : {0},
                  junk : 1..MaxJunk]
    IN  [fn : {"answer"}, cmd : {CMD_READ_FLASH_ISP},
         start : {MESSAGE_START, 0}, seq_off : {0, 1}, token : {TOKEN, 0},
         len_off : {-1, 0, 1}, cmd_ok : BOOLEAN,
         status : {STATUS_CMD_OK, 192}, data : {<<>>, <<7>>},
         chk_off : {0, 1}, cut : 0..MaxCut, junk : {0}]
        \cup right

\* the bytes of the reply a to a command sent with sequence number seq
AnswerBytes(a, seq) ==
    LET payload == <<IF a.cmd_ok THEN a.cmd ELSE (a.cmd + 1) % 256,
                     a.status>> \o a.data
        n == Len(payload) + a.len_off
        head == <<a.start, (seq + a.seq_off) % 256, Hi8(n), Lo8(n),
                  a.token>> \o payload
        frame == head \o <<(XorFold(0, head, 1) + a.chk_off) % 256>>
    IN  Zeros(a.junk) \o SubSeq(frame, 1, Len(frame) - a.cut)

\* a page written or read at the first or the third page of the flash while
\* the reply to the address or to the page command is lost or damaged
CodecPages ==
    [fn : {"page"}, op : {"write", "read"}, addr : {0, 128},
     f : {NoFault} \cup [kind : {"silent", "garbage"}, at : 0..1, n : {1},
                         off : {0}]]

CodecInputs(protocol) ==
    [fn : {"address"}, addr : CodecAddresses, flash : BOOLEAN]
    \cup CodecPages
    \cup [fn : {"read"}, count : {2}, status : BOOLEAN,
          data : UNION { [1..n -> {7, RESP_STK_OK}] : n \in 0..MaxData }]
    \cup [fn : {"signature"}, sigs : CodecSignatures]
    \cup IF protocol = "Stk500v1"
         THEN [fn : {"reply"}, say : CodecReplies, answer_len : 2..MaxReply,
               strict : BOOLEAN]
              \cup [fn : {"sign_on"}, name : CodecNames]
         ELSE [fn : {"frame"}, cmd : {CMD_SIGN_ON, CMD_READ_FLASH_ISP},
               body : CodecBodies]
              \cup CodecAnswers

InitCodec ==
    /\ ab = NewAb
    /\ prg \in {NewPrg("Stk500v1"), NewPrg("Stk500v2")}
    /\ args \in CodecInputs(prg.protocol)
    /\ wire = [rx |-> <<>>, timeout |-> 1000, pulse |-> <<>>]
    /\ tgt \in { [b EXCEPT !.name = IF args.fn = "sign_on" THEN args.name
                                   ELSE <<>>] :
                    b \in {x \in Boards : x.signature = Sig(30, 147, 7)} }
    /\ pc = "plug"
    /\ ih = [maxaddr |-> 0]
    /\ address = 0
    /\ dict_hex = <<>>
    /\ exitcode = -1
    /\ stage = ""
    /\ flash_done = FALSE
    /\ log = <<>>
    /\ calls = <<>>
    /\ nframes = 0
    /\ sent = <<>>

\* after a method: the objects as it left them, what it returned
CodecEnd(op, w, next) ==
    /\ CommitObjects(w)
    /\ stage' = w.exc
    /\ calls' = Append(calls, Call(op, 0, 0, w))
    /\ pc' = next
    /\ UNCHANGED <<args, ih, address, dict_hex, exitcode, flash_done, log>>

\* the line gives the bytes written back, or the bytes say
EchoFault == [kind |-> "echo", at |-> 0, n |-> 0, off |-> 0]
SayFault(reply) == [kind |-> "say", at |-> 0, n |-> 0, off |-> 0, say |-> reply]

CodecOpen == pc = "plug" /\ CodecEnd("open", PrgOpen(World(NoFault)), "codec")

\* _send_command(cmd, body), then _recv_answer(cmd) on what was written
CodecSendRecv ==
    /\ pc = "codec" /\ args.fn = "frame"
    /\ CodecEnd("frame",
                Then(V2SendCommand(World(EchoFault), args.cmd, args.body),
                     LAMBDA w1 : V2RecvAnswer(w1, args.cmd)),
                "done")

\* _cmd_request or _cmd_request_no_len on the bytes the line delivers
CodecCmdRequest ==
    /\ pc = "codec" /\ args.fn = "reply"
    /\ CodecEnd("reply",
                IF args.strict
                THEN V1CmdRequest(World(SayFault(args.say)), <<Chu, SP>>,
                                  args.answer_len)
                ELSE V1CmdRequestNoLen(World(SayFault(args.say)), <<Chu, SP>>,
                                       args.answer_len),
                "done")

\* Stk500v1._set_address(addr, flash)
CodecSetAddress ==
    /\ pc = "codec" /\ args.fn = "address" /\ prg.protocol = "Stk500v1"
    /\ CodecEnd("address",
                V1SetAddress(World(NoFault), args.addr, args.flash), "done")

\* Stk500v2._load_address(addr, flash)
CodecLoadAddress ==
    /\ pc = "codec" /\ args.fn = "address" /\ prg.protocol = "Stk500v2"
    /\ CodecEnd("address",
                V2LoadAddress(World(NoFault), args.addr, args.flash), "done")

\* Stk500v1.board_request() against a bootloader that signs on with a name
CodecBoardRequest ==
    /\ pc = "codec" /\ args.fn = "sign_on"
    /\ CodecEnd("sign_on", V1BoardRequest(World(NoFault)), "done")

\* cpu_signature(), once for each signature of the input: the part on the
\* board answers with the next of them
CodecCpuSignature ==
    /\ pc = "codec" /\ args.fn = "signature"
    /\ LET k == Len(calls)
       IN  CodecEnd("signature",
                    PrgCpuSignature([World(NoFault) EXCEPT
                                         !.tgt.signature = args.sigs[k]]),
                    IF k = Len(args.sigs) THEN "done" ELSE "codec")

\* _send_command(cmd), then _recv_answer(cmd) on the reply of the input
CodecRecvAnswer ==
    /\ pc = "codec" /\ args.fn = "answer"
    /\ CodecEnd("answer",
                Then(V2SendCommand(World([kind |-> "silent", at |-> 0,
                                          n |-> 1, off |-> 0]),
                                   args.cmd, <<>>),
                     LAMBDA w1 :
                     V2RecvAnswer([w1 EXCEPT !.wire.rx =
                                       AnswerBytes(args,
                                                   w1.prg.sequence_number)],
                                  args.cmd)),
                "done")

\* write_memory(buffer, address) or read_memory(address, count)
CodecPage ==
    /\ pc = "codec" /\ args.fn = "page"
    /\ CodecEnd("page",
                IF args.op = "write"
                THEN PrgWriteMemory(World(args.f), <<170, 187, 204, 221>>,
                                    args.addr)
                ELSE PrgReadMemory(World(args.f), args.addr, 4),
                "done")

\* after read_memory: as CodecEnd, the call recorded with the length of
\* the buffer returned
CodecReadEnd(w) ==
    /\ CommitObjects(w)
    /\ stage' = w.exc
    /\ calls' = Append(calls, Call("read", 0, Len(w.buf), w))
    /\ pc' = "done"
    /\ UNCHANGED <<args, ih, address, dict_hex, exitcode, flash_done, log>>

\* read_memory(0, count) while the board answers the read command with the
\* data of the input, in Stk500v2 followed by the status byte or not
CodecRead ==
    /\ pc = "codec" /\ args.fn = "read"
    /\ CodecReadEnd(
           PrgReadMemory(
               World([SayFault(
                          IF prg.protocol = "Stk500v1"
                          THEN <<RESP_STK_IN_SYNC>> \o args.data
                               \o <<RESP_STK_OK>>
                          ELSE FrameV2((prg.sequence_number + 2) % 256,
                                       <<CMD_READ_FLASH_ISP, STATUS_CMD_OK>>
                                       \o args.data
                                       \o IF args.status
                                          THEN <<STATUS_CMD_OK>> ELSE <<>>))
                      EXCEPT !.at = 1]),
               0, args.count))

NextCodec ==
    \/ CodecOpen
    \/ CodecRead
    \/ CodecPage
    \/ CodecRecvAnswer
    \/ CodecCpuSignature
    \/ CodecBoardRequest
    \/ CodecSendRecv
    \/ CodecCmdRequest
    \/ CodecSetAddress
    \/ CodecLoadAddress

SpecCodec == InitCodec /\ [][NextCodec]_vars

---------------------------------------------------------------------------
(* A client on a disturbed line: it builds a programmer of either protocol *)
(* and opens, synchronises and closes it in any order while the line       *)
(* loses replies, adds stray bytes or delivers a late answer first.        *)

\* frames a session writes before the client stops
MaxLineFrames == 3
\* data bytes in a late answer
MaxStale == 5
\* stray bytes ahead of a reply
MaxNoise == 1

\* what a call of open or get_sync meets on the line
SyncFaults(protocol) ==
    {NoFault}
    \cup IF protocol = "Stk500v1"
         THEN { [kind |-> "silent", at |-> 0, n |-> m, off |-> 0] :
                   m \in 1..MaxFaultRun }
              \cup { [kind |-> "noise", at |-> 0, n |-> m, off |-> 0] :
                        m \in 1..MaxNoise }
         ELSE { [kind |-> "stale", at |-> 0, n |-> m, off |-> 0] :
                   m \in 0..MaxStale }

InitLine ==
    /\ ab = NewAb
    /\ prg \in {NewPrg("Stk500v1"), NewPrg("Stk500v2")}
    /\ args = [mode |-> "none", programmer |-> prg.protocol]
    /\ wire = [rx |-> <<>>, timeout |-> 1000, pulse |-> <<>>]
    /\ tgt \in {b \in Boards : b.signature = Sig(30, 147, 7)}
    /\ pc = "line"
    /\ ih = [maxaddr |-> 0]
    /\ address = 0
    /\ dict_hex = <<>>
    /\ exitcode = -1
    /\ stage = ""
    /\ flash_done = FALSE
    /\ log = <<>>
    /\ calls = <<>>
    /\ nframes = 0
    /\ sent = <<>>

\* the record of a call on the line: the fault it met, whether the device
\* was open and the input buffer empty when it began, whether it returned
\* True and how many messages it wrote
LineCall(op, w, f) ==
    [op |-> op, f |-> f, open |-> (ab.device = "open"),
     clean |-> (wire.rx = <<>>), ok |-> (w.exc = "" /\ w.ret),
     wrote |-> Len(w.out)]

\* the last call and the one before it
LastTwo(cs, c) == IF cs = <<>> THEN <<c>> ELSE <<cs[Len(cs)], c>>

LineEnd(op, w, f) ==
    /\ CommitObjects(w)
    /\ stage' = w.exc
    /\ calls' = LastTwo(calls, LineCall(op, w, f))
    /\ UNCHANGED <<pc, args, ih, address, dict_hex, exitcode, flash_done,
                   log>>

LineReady == pc = "line" /\ nframes < MaxLineFrames

\* the board says something while it is reset
BannerFault ==
    [kind |-> "banner", at |-> 0, n |-> 0, off |-> 0, say |-> <<72, 105>>]

LineOpen ==
    /\ LineReady
    /\ \E f \in SyncFaults(prg.protocol) \cup {BannerFault} :
         LineEnd("open", PrgOpen(World(f)), f)

LineGetSync ==
    /\ LineReady
    /\ \E f \in SyncFaults(prg.protocol) :
         LineEnd("get_sync", PrgGetSync(World(f)), f)

LineClose == LineReady /\ LineEnd("close", PrgClose(World(NoFault)), NoFault)

\* leave_bootloader(), answered or not
LineLeave ==
    /\ LineReady
    /\ \E f \in {NoFault, [kind |-> "silent", at |-> 0, n |-> 1, off |-> 0]} :
         LineEnd("leave", PrgLeaveBootloader(World(f)), f)

NextLine ==
    \/ LineOpen
    \/ LineLeave
    \/ LineGetSync
    \/ LineClose

SpecLine == InitLine /\ [][NextLine]_vars

---------------------------------------------------------------------------
(* The script on a line that does more than lose or damage replies: the    *)
(* board floods the line with bytes, or answers with the sequence number   *)
(* of the command before.  The script runs on until it has ended.          *)

FloodFaults(protocol) ==
    { [kind |-> "noise", at |-> 0, n |-> MaxFlood, off |-> b] :
         b \in {0, MESSAGE_START, RESP_STK_IN_SYNC} }
    \cup IF protocol = "Stk500v2"
         THEN {[kind |-> "stale", at |-> 0, n |-> 0, off |-> 0]}
         ELSE {}

\* line 54: prg.open(speed=args.baudrate), on such a line
OpenFlooded ==
    /\ pc = "open"
    /\ \E f \in FloodFaults(prg.protocol) : OpenEnd(PrgOpen(World(f)))
    /\ address' = 0
    /\ UNCHANGED <<args, ih, dict_hex, flash_done>>

NextLive ==
    \/ ParseArgs
    \/ Open
    \/ OpenFlooded
    \/ BoardRequest
    \/ CpuSignature
    \/ LoadFile
    \/ WritePage
    \/ ReadPage
    \/ Save
    \/ Finish
    \/ ExitByError

\* there is a statement to execute: the guards of the actions of NextLive
CanStep ==
    \/ pc \in {"args", "open", "board_request", "cpu_signature", "load_file",
                "save", "finish", "exit_by_error"}
    \/ pc = "write" /\ Visits("write") < MaxVisits
    \/ pc = "read" /\ Visits("read") < MaxVisits

\* the interpreter executes the next statement as long as there is one:
\* WF_vars(NextLive), written out with CanStep, the guards of the actions,
\* for ENABLED <<NextLive>>_vars
Proceeds == []<>(~CanStep) \/ []<><<NextLive>>_vars

SpecLive == Init /\ [][NextLive]_vars /\ WF_vars(ParseArgs) /\ Proceeds

---------------------------------------------------------------------------
(* Properties of the script, checked under Spec *)

Ceil(n, d) == (n + d - 1) \div d

CallsOf(op) == SelectSeq(calls, LAMBDA c : c.op = op)

\* the messages the script prints with "error, " before it ends
DriverFailures ==
    {"could not connect", "board request", "cpu signature", "file not found",
     "error, file format", "writing flash memory", "reading flash memory",
     "file not match", "the file cannot be created"}

\* the place of a call in the order of the script
Rank(op) ==
    CASE op = "open" -> 1
      [] op = "board_request" -> 2
      [] op = "cpu_signature" -> 3
      [] op = "write" -> 4
      [] op = "read" -> 5

\* C1: when the script ends on a failure that came after the serial port
\* was opened, the last two things it did were leave_bootloader and close,
\* and the port is closed.
C1_PortClosedOnFailure ==
    (pc = "done" /\ stage \in DriverFailures
       /\ \E j \in 1..Len(log) : log[j] = "open")
    => /\ ab.device = "none"
       /\ Len(log) >= 2
       /\ log[Len(log)] = "close"
       /\ log[Len(log) - 1] = "leave"

\* C2: a call of the programmer that failed, or the read whose page did not
\* match the file, is the last call the script makes; after it the only
\* command written to the board is the one of leave_bootloader, and the
\* only other event is the close of the port.
C2_FailStop ==
    \A i \in 1..Len(calls) :
        (~calls[i].ok \/ (i = Len(calls) /\ stage = "file not match"))
        => /\ i = Len(calls)
           /\ pc \in {"exit_by_error", "done"}
           /\ \A j \in (calls[i].at + 1)..Len(log) :
                  log[j] \in {"leave", "close"}

C2_Witness ==
    /\ pc = "done"
    /\ stage = "writing flash memory"
    /\ Len(CallsOf("write")) = 2
    /\ ~calls[Len(calls)].ok
    /\ log[Len(log)] = "close"

C4_PageCalls ==
    (pc = "done" /\ flash_done /\ exitcode = 0 /\ args.mode = "update")
    => /\ ab.cpu_page_size > 0
       /\ Len(CallsOf("write")) = Ceil(ih.maxaddr, ab.cpu_page_size)
       /\ Len(CallsOf("read")) = Ceil(ih.maxaddr, ab.cpu_page_size)
       /\ calls = SubSeq(calls, 1, 3) \o CallsOf("write") \o CallsOf("read")
       /\ \A i \in 1..Ceil(ih.maxaddr, ab.cpu_page_size) :
             /\ CallsOf("write")[i].address = (i - 1) * ab.cpu_page_size
             /\ CallsOf("write")[i].size = ab.cpu_page_size
             /\ CallsOf("write")[i].ok
             /\ CallsOf("read")[i].address = (i - 1) * ab.cpu_page_size
             /\ CallsOf("read")[i].size = ab.cpu_page_size
             /\ CallsOf("read")[i].ok

C4_Witness ==
    /\ pc = "done"
    /\ flash_done
    /\ exitcode = 0
    /\ args.mode = "update"
    /\ ab.cpu_page_size = 64
    /\ ih.maxaddr = 129
    /\ Len(CallsOf("write")) = 3
    /\ Len(CallsOf("read")) = 3

\* C5: an update run whose verify loop ran and that ends with a byte of
\* the flash different from the byte of the file at the same address has
\* not reported success.
C5_MismatchNeverSuccess ==
    (/\ pc = "done"
     /\ args.mode = "update"
     /\ Len(CallsOf("read")) > 0
     /\ \E k \in 0..ih.maxaddr : FlashByte(tgt, k) # ImageByte(k))
    => ~flash_done

\* C6: against a board whose signature the registry does not list, page
\* size and page count are zero in every state, cpu_signature does not
\* succeed, the script leaves through exit_by_error, and no write_memory
\* call is made nor any program-page command written.
C6_UnknownCpuBlocked ==
    tgt.signature \notin CpuKeys =>
    /\ ab.cpu_page_size = 0
    /\ ab.cpu_pages = 0
    /\ \A i \in 1..Len(calls) :
          /\ calls[i].op # "write"
          /\ calls[i].op = "cpu_signature"
             => ~calls[i].ok /\ pc \in {"exit_by_error", "done"}
    /\ \A j \in 1..Len(log) : log[j] # "program_page"

C6_Witness ==
    /\ tgt.signature \notin CpuKeys
    /\ pc = "done"
    /\ stage = "cpu signature"
    /\ ab.cpu_name = <<"signature: ">> \o HexDigits(tgt.signature)
    /\ ab.cpu_page_size = 0

\* C7: in read mode no write_memory call is made, no program-page command
\* is written and the script never ends on "file not match"; the image
\* holds a byte for each address of the pages read so far; and once the
\* reading loop is over the script has made exactly cpu_pages read_memory
\* calls, the i-th at byte address (i-1)*P and of exactly P bytes, and the
\* image holds every byte read, as the board holds it.
C7_ReadOnly ==
    args.mode = "read" =>
    /\ \A i \in 1..Len(calls) : calls[i].op # "write"
    /\ \A j \in 1..Len(log) : log[j] # "program_page"
    /\ stage # "file not match"
    /\ DOMAIN dict_hex =
           0..(ab.cpu_page_size * Len(SelectSeq(calls, LAMBDA c :
                                         c.op = "read" /\ c.ok)) - 1)
    /\ (pc \in {"save", "finish"} \/ flash_done)
       => /\ \A a \in DOMAIN dict_hex : dict_hex[a] = FlashByte(tgt, a)
          /\ ab.cpu_page_size > 0
          /\ Len(CallsOf("read")) = ab.cpu_pages
          /\ \A i \in 1..ab.cpu_pages :
                /\ CallsOf("read")[i].address = (i - 1) * ab.cpu_page_size
                /\ CallsOf("read")[i].size = ab.cpu_page_size
                /\ CallsOf("read")[i].ok

C7_Witness ==
    /\ pc = "done"
    /\ flash_done
    /\ args.mode = "read"
    /\ Len(CallsOf("read")) = 128
    /\ DOMAIN dict_hex = 0..8191

\* C8: when the script ends after printing one of its error messages, the
\* exit status of the process is not zero.
C8_NonzeroOnFailure ==
    (pc = "done" /\ stage \in DriverFailures) => exitcode # 0

---------------------------------------------------------------------------
(* Properties of the Stk500v2 sequence number, checked under SpecV2 *)

\* C9: every call leaves the stored sequence number in 0..255; the i-th
\* frame a call writes carries the sequence number stored before the call
\* plus i, modulo 256, which is also what is stored after its last frame;
\* the first frame of a fresh programmer carries 1.
C9_SeqIncrement ==
    [][ /\ prg'.sequence_number \in 0..255
        /\ prg'.sequence_number =
               (prg.sequence_number + Len(sent')) % 256
        /\ \A i \in 1..Len(sent') :
               sent'[i][2] = (prg.sequence_number + i) % 256
        /\ (nframes = 0 /\ sent' # <<>>) => sent'[1][2] = 1 ]_vars

C9_Witness ==
    /\ nframes >= 257
    /\ prg.sequence_number = 1
    /\ sent # <<>>
    /\ sent[Len(sent)][2] = 1

\* C10 as stated: the frame written after n frames carries n mod 256.
C10_AsStated ==
    \A i \in 1..Len(sent) :
        sent[i][2] = (nframes - Len(sent) + i - 1) % 256

\* C10: the frame written after n frames of a fresh programmer carries
\* (n + 1) mod 256, so the 255th frame carries 255, the 256th 0 and the
\* 257th 1; the number stored after n frames is n mod 256.
C10_SeqAfterN ==
    /\ prg.sequence_number = nframes % 256
    /\ \A i \in 1..Len(sent) :
           sent[i][2] = (nframes - Len(sent) + i) % 256

C10_Witness ==
    /\ nframes >= 257
    /\ \E i \in 1..Len(sent) :
          /\ nframes - Len(sent) + i = 257
          /\ sent[i][2] = 1
          /\ i > 1 => sent[i - 1][2] = 0

---------------------------------------------------------------------------
(* Properties of the codec on a disturbed line, checked under SpecLine *)

\* a get_sync of the Stk500v2 programmer on an open session with nothing
\* unread, met by a late answer ahead of the answer to its own request
LateAnswerCalls ==
    { i \in 1..Len(calls) :
        /\ calls[i].op = "get_sync" /\ calls[i].open /\ calls[i].clean
        /\ calls[i].f.kind = "stale" }

\* C11: a Stk500v2 reply is accepted only when its header carries the
\* sequence number of the last frame sent; a reply with another sequence
\* number is dropped and the codec reads on for the matching reply, so a
\* request whose answer arrives behind a late answer still succeeds.
C11_AsStated ==
    prg.protocol = "Stk500v2" => \A i \in LateAnswerCalls : calls[i].ok

---------------------------------------------------------------------------
(* Properties of the codec, checked under SpecCodec *)

\* the method under test returned
Applied(fn) == pc = "done" /\ args.fn = fn
Returned == calls[Len(calls)].ok

\* 0x1B, seq, len_hi, len_lo, 0x0E, cmd, body, checksum
FrameShape(m) ==
    /\ Len(m) >= 7
    /\ m[1] = MESSAGE_START
    /\ m[2] \in 0..255
    /\ m[3] * 256 + m[4] = 1 + (Len(m) - 7)
    /\ m[5] = TOKEN
    /\ m[Len(m)] = XorRange(m, 1, Len(m) - 1)
    /\ XorRange(m, 1, Len(m)) = 0

\* C12: every frame the Stk500v2 programmer writes is 0x1B, seq, len_hi,
\* len_lo, 0x0E, cmd, body, checksum with len = 1 + |body| and the checksum
\* the XOR of all bytes before it, so that the XOR of the whole frame is 0;
\* the frame written for (cmd, body) carries exactly cmd and body.
C12_FrameShape ==
    prg.protocol = "Stk500v2" =>
        /\ \A i \in 1..Len(sent) : FrameShape(sent[i])
        /\ Applied("frame") =>
             /\ Len(sent) = 1
             /\ sent[1][2] = prg.sequence_number
             /\ SubSeq(sent[1], 6, Len(sent[1]) - 1) = <<args.cmd>> \o args.body

C12_Witness ==
    /\ Applied("frame")
    /\ Len(args.body) = 2
    /\ args.body[1] = MESSAGE_START
    /\ Len(sent[1]) = 9

\* C13 as stated: _recv_answer(c) applied to the bytes _send_command(c, b)
\* wrote accepts the frame and returns exactly the body b.
C13_AsStated ==
    Applied("frame") => Returned /\ prg.answer = args.body

\* C13: _recv_answer(c) applied to the bytes _send_command(c, b) wrote
\* accepts the frame exactly when b begins with STATUS_CMD_OK, and then
\* returns b without that first byte and leaves nothing unread; a frame
\* with an empty body or another first byte is rejected.
C13_RoundTrip ==
    Applied("frame") =>
        /\ Returned <=> (Len(args.body) >= 1 /\ args.body[1] = STATUS_CMD_OK)
        /\ Returned => prg.answer = Tail(args.body) /\ wire.rx = <<>>

C13_Witness ==
    /\ Applied("frame")
    /\ Returned
    /\ args.body = <<STATUS_CMD_OK, MESSAGE_START>>
    /\ prg.answer = <<MESSAGE_START>>

\* C17: the reply to a Stk500v1 command, which is the bytes read for it (at
\* most the expected length), is accepted only if its first byte is 0x14
\* and its last byte is 0x10, and by _cmd_request only if its length is
\* also the expected length; a short read, a wrong first byte, a wrong last
\* byte or a wrong length each make the request return False.
C17_ReplyAccepted ==
    Applied("reply") =>
        /\ prg.answer = Take(args.say, args.answer_len)
        /\ Returned <=>
             /\ Len(prg.answer) >= 2
             /\ prg.answer[1] = RESP_STK_IN_SYNC
             /\ prg.answer[Len(prg.answer)] = RESP_STK_OK
             /\ args.strict => Len(prg.answer) = args.answer_len

C17_Witness ==
    /\ Applied("reply")
    /\ args.strict
    /\ args.answer_len = 3
    /\ prg.answer = <<RESP_STK_IN_SYNC, RESP_STK_OK>>
    /\ ~Returned

\* _set_address of Stk500v1 returned, flash as given
V1Address(flash) ==
    Applied("address") /\ prg.protocol = "Stk500v1" /\ args.flash = flash

\* C18: for every byte address a < 2^17 with flash = true, the Stk500v1
\* load-address command is 'U', the low byte of a / 2, the high byte of
\* a / 2, ' '; byte address 0x1234 goes out as 55 1A 09 20.
C18_WordAddress ==
    (V1Address(TRUE) /\ args.addr < 131072) =>
        /\ sent = << <<ChU, (args.addr \div 2) % 256,
                       (args.addr \div 2) \div 256, SP>> >>
        /\ sent[1][2] + 256 * sent[1][3] = args.addr \div 2
        /\ args.addr = 4660 => sent[1] = <<85, 26, 9, 32>>

C18_Witness ==
    /\ V1Address(TRUE)
    /\ args.addr = 4660
    /\ sent = << <<85, 26, 9, 32>> >>
    /\ Returned

\* C19 as stated: for every byte address a with flash = false, the address
\* in the Stk500v1 load-address command is a.
C19_AsStated ==
    V1Address(FALSE) =>
        /\ Len(sent) = 1 /\ Len(sent[1]) = 4
        /\ sent[1][2] + 256 * sent[1][3] = args.addr

\* C19: for every byte address a with flash = false, the Stk500v1
\* load-address command carries the low 16 bits of a, low byte first: the
\* address on the wire is a itself for every a < 2^16.
C19_EepromAddress ==
    V1Address(FALSE) =>
        /\ sent = << <<ChU, args.addr % 256, (args.addr \div 256) % 256,
                       SP>> >>
        /\ args.addr < 65536 => sent[1][2] + 256 * sent[1][3] = args.addr

C19_Witness ==
    /\ V1Address(FALSE)
    /\ args.addr = 65535
    /\ sent = << <<ChU, 255, 255, SP>> >>
    /\ Returned

\* the four bytes of x, most significant first
BigEndian(x) ==
    <<(x \div 16777216) % 256, (x \div 65536) % 256, (x \div 256) % 256,
      x % 256>>

\* C20: the body of the Stk500v2 LOAD_ADDRESS frame is a 4-byte big-endian
\* address: for flash = true the byte address divided by 2 with 0x80 or-ed
\* into the first byte, for flash = false the byte address itself.
C20_AsStated ==
    (Applied("address") /\ prg.protocol = "Stk500v2") =>
        /\ Len(sent) = 1 /\ Len(sent[1]) = 11
        /\ sent[1][6] = CMD_LOAD_ADDRESS
        /\ SubSeq(sent[1], 7, 10) =
              IF args.flash
              THEN [BigEndian(args.addr \div 2) EXCEPT ![1] = @ + 128]
              ELSE BigEndian(args.addr)

C23_Descriptor ==
    /\ ab.cpu_page_size % 2 = 0
    /\ (args.fn = "signature" /\ Len(calls) >= 2) =>
           LET last == args.sigs[Len(calls) - 1]
           IN  IF \E e \in AVR_ATMEL_CPUS : e[1] = last
               THEN \E e \in AVR_ATMEL_CPUS :
                       /\ e[1] = last
                       /\ ab.cpu_name = <<e[2]>>
                       /\ ab.cpu_page_size = e[3]
                       /\ ab.cpu_pages = e[4]
                       /\ Returned
               ELSE ab.cpu_page_size = 0 /\ ab.cpu_pages = 0 /\ ~Returned

C23_Witness ==
    /\ Applied("signature")
    /\ args.sigs = <<Sig(30, 152, 1), Sig(222, 173, 190)>>
    /\ Len(calls) = 3
    /\ calls[2].ok /\ ~calls[3].ok
    /\ ab.cpu_page_size = 0
    /\ ab.cpu_pages = 0

\* the reply the line delivered to the command written
Delivered == AnswerBytes(args, sent[1][2])

\* r holds, after k bytes, a whole reply to cmd sent with sequence number seq
ValidAt(r, k, seq, cmd) ==
    /\ Len(r) >= k + 8
    /\ r[k + 1] = MESSAGE_START
    /\ r[k + 2] = seq
    /\ r[k + 5] = TOKEN
    /\ LET n == r[k + 3] * 256 + r[k + 4]
       IN  /\ n >= 2
           /\ Len(r) >= k + 5 + n + 1
           /\ r[k + 6] = cmd
           /\ r[k + 7] = STATUS_CMD_OK
           /\ r[k + 5 + n + 1] = XorFold(0, SubSeq(r, k + 1, k + 5 + n), 1)

\* C25: Stk500v2 _recv_answer returns True only if the reply has
\* MESSAGE_START, the expected sequence number and TOKEN in its header, all
\* len + 1 bytes after the header arrived, the last of them is the XOR of
\* every frame byte before it, the first payload byte is the command
\* answered and the second is STATUS_CMD_OK.
C25_OnlyValid ==
    (Applied("answer") /\ Returned) =>
        \E k \in 0..Len(Delivered) : ValidAt(Delivered, k, sent[1][2], args.cmd)

C25_Witness ==
    /\ Applied("answer")
    /\ Returned
    /\ args.junk = 0
    /\ args.data = <<7>>
    /\ prg.answer = <<7>>
    /\ ValidAt(Delivered, 0, prg.sequence_number, args.cmd)

\* the reply starts after k bytes, none of them a start byte
StartsAfter(k) ==
    /\ ValidAt(Delivered, k, sent[1][2], args.cmd)
    /\ \A j \in 1..k : Delivered[j] # MESSAGE_START

\* C26 as stated: a byte that is not MESSAGE_START is discarded and the
\* header read tried again, up to 10 times: a valid reply whose header
\* starts within the first 10 attempts, that is behind at most 9 such
\* bytes, is accepted.
C26_AsStated ==
    (Applied("answer") /\ \E k \in 0..9 : StartsAfter(k)) => Returned

\* what the code does instead: behind at most 8 such bytes the reply is
\* accepted, behind 9 or more it is not
HeaderNineAttempts ==
    Applied("answer") =>
        /\ (\E k \in 0..8 : StartsAfter(k)) => Returned
        /\ (\E k \in 9..Len(Delivered) : StartsAfter(k)) => ~Returned

\* m is the load-address command for the flash byte address a < 2^17
IsLoadAddress(m, a) ==
    IF prg.protocol = "Stk500v1"
    THEN m = <<ChU, (a \div 2) % 256, (a \div 2) \div 256, SP>>
    ELSE /\ Len(m) = 11
         /\ m[6] = CMD_LOAD_ADDRESS
         /\ SubSeq(m, 7, 10) = <<128, 0, (a \div 2) \div 256, (a \div 2) % 256>>

\* m is a program-page or a read-page command
IsPageCommand(m) ==
    IF prg.protocol = "Stk500v1" THEN m[1] \in {Chd, Cht}
    ELSE m[6] \in {CMD_PROGRAM_FLASH_ISP, CMD_READ_FLASH_ISP}

\* C27: in both protocols a program-page or read-page command is written
\* only right after the load-address command for the page's address, and
\* only when the target acknowledged that one; when the load-address step
\* fails, write_memory and read_memory write no page command and report
\* failure.
C27_AddressFirst ==
    Applied("page") =>
        /\ Len(sent) \in {1, 2}
        /\ IsLoadAddress(sent[1], args.addr)
        /\ ~IsPageCommand(sent[1])
        /\ Len(sent) = 2 =>
               /\ IsPageCommand(sent[2])
               /\ ~Hit(args.f, 0)
        /\ Hit(args.f, 0) => (Len(sent) = 1 /\ ~Returned)

C27_Witness ==
    /\ Applied("page")
    /\ args.op = "write"
    /\ args.addr = 128
    /\ args.f.kind = "garbage" /\ args.f.at = 0
    /\ Len(sent) = 1
    /\ IsLoadAddress(sent[1], 128)
    /\ ~Returned

---------------------------------------------------------------------------
(* Properties of Stk500v1 synchronisation, checked under SpecLine *)

\* calls that run the sync loop of Stk500v1 from an empty input buffer:
\* open, which empties it, and get_sync on an open session
SyncCalls ==
    { i \in 1..Len(calls) :
        /\ prg.protocol = "Stk500v1"
        /\ \/ calls[i].op = "open"
           \/ calls[i].op = "get_sync" /\ calls[i].open /\ calls[i].clean }

\* C14: Stk500v1 get_sync sends the sync command up to 5 times: when the
\* bootloader is silent for the first n <= 4 attempts and answers the next
\* one, get_sync succeeds having written n + 1 sync commands and no more;
\* it reports failure only after 5 attempts went unanswered.
C14_AsStated ==
    \A i \in SyncCalls :
        calls[i].f.kind \in {"none", "silent"} =>
            /\ calls[i].f.n <= 4 =>
                  calls[i].ok /\ calls[i].wrote = calls[i].f.n + 1
            /\ ~calls[i].ok => calls[i].wrote = 5

\* C15: when one stray byte 0x00 comes in ahead of the first sync reply of
\* a Stk500v1 bootloader that answers every sync command with 14 10, the
\* first attempt reads 00 14 and fails, the leftover is discarded, and a
\* later attempt of the same get_sync reads 14 10: get_sync succeeds.
C15_AsStated ==
    \A i \in SyncCalls :
        (calls[i].f.kind = "noise" /\ calls[i].f.n = 1) => calls[i].ok

\* get_sync was called twice in a row, the first time on an open session
\* with nothing unread, and the bootloader answered every request
TwoSyncs ==
    /\ Len(calls) = 2
    /\ \A i \in 1..2 : calls[i].op = "get_sync" /\ calls[i].f = NoFault
    /\ calls[1].open /\ calls[1].clean

\* C16: for Stk500v1 and Stk500v2, get_sync called twice in a row on an
\* open session, against a bootloader that is in sync and answers each
\* request, succeeds both times; each call writes one request and leaves
\* the session open with nothing unread.
C16_SyncRepeatable ==
    TwoSyncs =>
        /\ \A i \in 1..2 : calls[i].ok /\ calls[i].wrote = 1 /\ calls[i].clean
        /\ ab.device = "open"
        /\ wire.rx = <<>>

C16_Witness ==
    /\ TwoSyncs
    /\ prg.protocol = "Stk500v1"
    /\ calls[1].ok /\ calls[2].ok
    /\ prg.answer = <<RESP_STK_IN_SYNC, RESP_STK_OK>>

---------------------------------------------------------------------------
(* Properties of the session after board_request, checked under Spec *)

\* C21: after a successful board_request, of Stk500v1 or Stk500v2, the
\* session's hw_version is the hardware version the bootloader returned,
\* sw_major the software major version and sw_minor the software minor
\* version it returned.
C21_AsStated ==
    (\E i \in 1..Len(calls) : calls[i].op = "board_request" /\ calls[i].ok) =>
        /\ ab.hw_version = tgt.hw
        /\ ab.sw_major = tgt.major
        /\ ab.sw_minor = tgt.minor

---------------------------------------------------------------------------
(* Properties of leave_bootloader, checked under SpecLine *)

\* a step that is a leave_bootloader the board answers, right after a
\* leave_bootloader that returned True, on a line with nothing unread
LeaveAgain ==
    /\ calls # <<>>
    /\ calls[Len(calls)].op = "leave"
    /\ calls[Len(calls)].ok
    /\ calls[Len(calls)].clean
    /\ wire.rx = <<>>
    /\ nframes' = nframes + 1
    /\ calls'[Len(calls')].op = "leave"
    /\ calls'[Len(calls')].f = NoFault

---------------------------------------------------------------------------
(* Properties of open, checked under SpecLine *)

\* C28: open() asserts DTR and RTS, waits, releases both, waits and then
\* empties the input buffer, before the first sync command is written: of
\* what the board said while it was reset nothing is read as a reply, so the
\* first sync command is answered and nothing stays unread.
C28_PulseThenFlush ==
    (calls # <<>> /\ calls[Len(calls)].op = "open") =>
        /\ wire.pulse = <<"dtr on", "rts on", "sleep", "dtr off", "rts off",
                          "sleep", "flush">>
        /\ calls[Len(calls)].f.kind = "banner" =>
               /\ calls[Len(calls)].ok
               /\ calls[Len(calls)].wrote = 1
               /\ wire.rx = <<>>

C28_Witness ==
    /\ calls # <<>>
    /\ calls[Len(calls)].op = "open"
    /\ calls[Len(calls)].f.kind = "banner"
    /\ calls[Len(calls)].ok
    /\ prg.protocol = "Stk500v1"
    /\ prg.answer = <<RESP_STK_IN_SYNC, RESP_STK_OK>>
    /\ wire.pulse[Len(wire.pulse)] = "flush"

---------------------------------------------------------------------------
(* Properties of a whole run, checked under Spec *)

\* a call of op that returned True covers the byte address a
Covered(op, a) ==
    \E i \in 1..Len(calls) :
        /\ calls[i].op = op
        /\ calls[i].ok
        /\ calls[i].address <= a
        /\ a < calls[i].address + calls[i].size

\* C29 as stated: when an update run reports success, every byte of the
\* image at the addresses 0..max_addr inclusive was written to the target
\* and read back equal: the pages written and verified cover the whole
\* range, the byte at max_addr included when max_addr is a multiple of the
\* page size.
C29_AsStated ==
    (pc = "done" /\ args.mode = "update" /\ flash_done) =>
        \A a \in 0..ih.maxaddr :
            /\ Covered("write", a)
            /\ Covered("read", a)
            /\ FlashByte(tgt, a) = ImageByte(a)

\* what the loops do cover: every byte below max_addr
WrittenBelowMaxAddr ==
    (pc = "done" /\ args.mode = "update" /\ flash_done) =>
        \A a \in 0..(ih.maxaddr - 1) :
            /\ Covered("write", a)
            /\ Covered("read", a)
            /\ FlashByte(tgt, a) = ImageByte(a)

---------------------------------------------------------------------------
(* Termination of the script, checked under SpecLive *)

\* C30: the script always terminates, whatever the board does (no answer,
\* damaged answers, wrong sequence numbers, a flood of bytes): every run
\* reaches its end, by success or by an error exit.
C30_Terminates == <>(pc = "done")

C30_Witness ==
    /\ pc = "done"
    /\ Len(calls) = 1
    /\ calls[1].op = "open"
    /\ ~calls[1].ok
    /\ Len(wire.rx) > 0
    /\ exitcode = 0

---------------------------------------------------------------------------
(* Properties of a closed session, checked under SpecLine *)

\* C31 as stated: on a session that is closed (never opened, or after
\* close) get_sync and leave_bootloader report failure without writing to
\* the device and leave the session as it was, and close() may be called
\* again without error.
C31_AsStated ==
    (/\ calls # <<>>
     /\ ~calls[Len(calls)].open
     /\ calls[Len(calls)].op \in {"get_sync", "leave", "close"})
    => /\ stage = ""
       /\ ~calls[Len(calls)].ok \/ calls[Len(calls)].op = "close"
       /\ calls[Len(calls)].wrote = 0
       /\ ab.device = "none"

\* what the closed session does: nothing is written, the Stk500v2 methods
\* and the Stk500v1 leave_bootloader return False, and close() and the
\* Stk500v1 get_sync raise AttributeError
ClosedSession ==
    (/\ calls # <<>>
     /\ ~calls[Len(calls)].open
     /\ calls[Len(calls)].op \in {"get_sync", "leave", "close"})
    => /\ calls[Len(calls)].wrote = 0
       /\ ~calls[Len(calls)].ok
       /\ ab.device = "none"
       /\ stage = IF \/ calls[Len(calls)].op = "close"
                     \/ /\ calls[Len(calls)].op = "get_sync"
                        /\ prg.protocol = "Stk500v1"
                  THEN "AttributeError" ELSE ""

---------------------------------------------------------------------------
(* Properties of read_memory, checked under SpecCodec *)

\* C32 as stated: whenever read_memory(address, count) reports success the
\* buffer it returns holds exactly count bytes; a reply that carries fewer
\* or more than count data bytes, none at all included, yields None, never
\* a buffer of another length and never an exception.
C32_AsStated ==
    Applied("read") =>
        /\ stage = ""
        /\ Returned => calls[Len(calls)].size = args.count
        /\ Len(args.data) # args.count => ~Returned

\* what read_memory does with a reply of the right length: it returns its
\* data bytes, in Stk500v2 when the status byte follows them
ReadOfCount ==
    (Applied("read") /\ Len(args.data) = args.count
     /\ (prg.protocol = "Stk500v2" => args.status))
    => /\ Returned
       /\ calls[Len(calls)].size = args.count
       /\ prg.protocol = "Stk500v2" => prg.answer = args.data
       /\ prg.protocol = "Stk500v1" =>
              prg.answer = <<RESP_STK_IN_SYNC>> \o args.data \o <<RESP_STK_OK>>
====
